---------------------------- MODULE Spec2Model ----------------------------
(***************************************************************************)
(* A model of the iCal server of src/main.go: the startup in main, the     *)
(* router (rootHandler, calendarHandler), the Basic-Auth middleware and    *)
(* the two calendar handlers, down to the filesystem steps they make.      *)
(*                                                                         *)
(* Strings.  A path string is modelled as the sequence of the segments     *)
(* that strings.Split(path, "/") yields: "/a/x.ics" is <<"", "a", "x.ics">>*)
(* and "calendars" is <<"calendars">>.  The mapping is one to one (a       *)
(* string is its segments joined by "/"), so joining two strings with a    *)
(* "/" between them is the concatenation of their sequences.  A segment is *)
(* the sequence of its characters, so that a suffix test reads characters. *)
(* A document (request payload, file content) is a sequence of bytes.      *)
(***************************************************************************)
EXTENDS Naturals, Sequences, FiniteSets, TLC

(***************************************************************************)
(* Bounds of the model and the names used in requests.                     *)
(***************************************************************************)
\* Longest request payload.
MaxDocLen == 2

E == <<>>
DOT == <<".">>
DOTDOT == <<".", ".">>
ICS == <<".", "i", "c", "s">>
SegA == <<"a">>
SegB == <<"b">>
SegZ == <<"z">>
SegX == <<"x", ".", "i", "c", "s">>
SegY == <<"y", ".", "i", "c", "s">>
SegN == <<"i", "c", "s">>

\* main.go:57
dataDir == << <<"c", "a", "l", "e", "n", "d", "a", "r", "s">> >>

\* The working directory of the process, as a cleaned relative path.
Cwd == <<DOT>>

(***************************************************************************)
(* strings and path/filepath                                               *)
(***************************************************************************)
\* strings.HasSuffix on one segment.
SegHasSuffix(seg, suf) ==
    /\ Len(seg) >= Len(suf)
    /\ SubSeq(seg, Len(seg) - Len(suf) + 1, Len(seg)) = suf

\* strings.HasSuffix(path, suf) for a suffix that holds no "/": the suffix
\* lies within the last segment.
HasSuffix(path, suf) == SegHasSuffix(path[Len(path)], suf)

RECURSIVE TrimLeft(_)
TrimLeft(p) == IF Len(p) > 1 /\ p[1] = E THEN TrimLeft(Tail(p)) ELSE p

RECURSIVE TrimRight(_)
TrimRight(p) ==
    IF Len(p) > 1 /\ p[Len(p)] = E THEN TrimRight(SubSeq(p, 1, Len(p) - 1)) ELSE p

\* strings.Trim(path, "/"): leading and trailing "/" removed.
Trim(p) == TrimRight(TrimLeft(p))

\* strings.Split(strings.Trim(path, "/"), "/")
Parts(path) == Trim(path)

\* The string starts with "/".
Rooted(p) == Len(p) >= 2 /\ p[1] = E

RECURSIVE CleanSegs(_, _, _)
CleanSegs(segs, out, rooted) ==
    IF segs = <<>> THEN out
    ELSE LET s == Head(segs)
             rest == Tail(segs)
         IN  IF s = E \/ s = DOT THEN CleanSegs(rest, out, rooted)
             ELSE IF s = DOTDOT
                  THEN IF Len(out) > 0 /\ out[Len(out)] # DOTDOT
                       THEN CleanSegs(rest, SubSeq(out, 1, Len(out) - 1), rooted)
                       ELSE IF rooted THEN CleanSegs(rest, out, rooted)
                            ELSE CleanSegs(rest, Append(out, DOTDOT), rooted)
                  ELSE CleanSegs(rest, Append(out, s), rooted)

\* filepath.Clean: "." and empty segments dropped, "x/.." dropped, ".." at
\* the root dropped, "" becomes ".".
Clean(p) ==
    LET out == CleanSegs(p, <<>>, Rooted(p))
    IN  IF Rooted(p) THEN <<E>> \o (IF out = <<>> THEN <<E>> ELSE out)
        ELSE IF out = <<>> THEN <<DOT>> ELSE out

\* filepath.Join(a, b): the elements from the first non-empty one on, joined
\* by "/" and cleaned.
Join(a, b) ==
    IF a # <<E>> THEN Clean(a \o b)
    ELSE IF b # <<E>> THEN Clean(b) ELSE <<E>>

\* filepath.Dir: the path up to its last "/", cleaned.
Dir(p) == IF Len(p) = 1 THEN <<DOT>> ELSE Clean(SubSeq(p, 1, Len(p) - 1) \o <<E>>)

\* The first n elements of a sequence (all of it when it is shorter).
Take(s, n) == SubSeq(s, 1, IF n < Len(s) THEN n ELSE Len(s))

IsPrefix(a, b) == Len(a) <= Len(b) /\ SubSeq(b, 1, Len(a)) = a

\* loc is below dir, and is not dir itself.
StrictlyUnder(loc, dir) == Len(loc) > Len(dir) /\ IsPrefix(dir, loc)


(***************************************************************************)
(* Requests and responses                                                  *)
(***************************************************************************)
\* A payload of n bytes; payloads of different lengths differ in every byte,
\* so that a mixture of two of them is no payload.
Doc(n) == [i \in 1..n |-> IF n % 2 = 1 THEN "B" ELSE "A"]

Docs == {Doc(n) : n \in 0..MaxDocLen}

\* The Authorization header of a request.
NoAuth == [kind |-> "none", user |-> E, pass |-> ""]
BadHeader == [kind |-> "malformed", user |-> E, pass |-> ""]
Basic(u, pw) == [kind |-> "basic", user |-> u, pass |-> pw]

\* The content of a users.json that parses: two users and their passwords.
ValidUsers == (SegA :> "pa") @@ (SegB :> "pb")

\* main.go:88-91
defaultUsers ==
    (<<"u", "s", "e", "r", "1">> :> "changeme") @@ (<<"u", "s", "e", "r", "2">> :> "pleasereset")

GoodAuths == {Basic(SegA, "pa"), Basic(SegB, "pb")}
FailAuths == {NoAuth, BadHeader, Basic(SegA, "bad"), Basic(SegZ, "pz")}

\* The credentials of the GET requests: none, those of a user, invalid ones.
GetAuths == {NoAuth, Basic(SegB, "pb"), Basic(SegA, "bad")}

RootPath == <<E, E>>
PathAX == <<E, SegA, SegX>>
PathBX == <<E, SegB, SegX>>
PathTrav == <<E, SegA, DOTDOT, SegB, SegX>>
PathNest == <<E, SegA, SegX, SegY>>
PathOne == <<E, SegX>>
PathEsc == <<E, SegA, DOTDOT, DOTDOT, SegX>>
PathNon == <<E, SegA, SegN>>
PathDots == <<E, E, SegA, DOT, SegX>>

\* The URL paths of the requests: "/", /a/x.ics, /b/x.ics, /a/../b/x.ics,
\* /a/x.ics/y.ics, /x.ics, /a/../../x.ics, /a/ics and //a/./x.ics.
Paths == {RootPath, PathAX, PathBX, PathTrav, PathNest, PathOne, PathEsc, PathNon, PathDots}

Req(m, p, au, d) == [method |-> m, path |-> p, auth |-> au, body |-> d]

Requests ==
    {Req("PUT", p, au, Doc(1)) : p \in Paths, au \in GoodAuths}
        \cup {Req("PUT", p, au, Doc(1)) : p \in Paths, au \in FailAuths}
        \cup {Req("GET", p, au, <<>>) : p \in Paths, au \in GetAuths}
        \cup {Req("POST", p, NoAuth, <<>>) : p \in Paths}
        \cup {Req("DELETE", p, Basic(SegA, "pa"), <<>>) : p \in {RootPath, PathAX}}

\* Owners writing and anyone reading the calendars /a/x.ics and /b/x.ics, and
\* a user writing to a path that is no calendar and to another user's.
OwnRequests ==
    {Req("PUT", PathAX, Basic(SegA, "pa"), d) : d \in Docs}
        \cup {Req("PUT", PathBX, Basic(SegB, "pb"), d) : d \in Docs}
        \cup {Req("PUT", p, Basic(SegA, "pa"), Doc(1)) : p \in {PathNon, PathBX}}
        \cup {Req("GET", p, NoAuth, <<>>) : p \in {PathAX, PathBX}}

\* The requests of the concurrent runs: owners writing their own calendar,
\* and anonymous reads.
ConcRequests ==
    {Req("PUT", PathAX, Basic(SegA, "pa"), d) : d \in {Doc(1), Doc(2)}}
        \cup {Req("PUT", PathBX, Basic(SegB, "pb"), Doc(1))}
        \cup {Req("GET", PathAX, NoAuth, <<>>)}

NoReq == Req("", <<E>>, NoAuth, <<>>)

Resp(st, ct, ch, b) == [status |-> st, ctype |-> ct, challenge |-> ch, body |-> b]

NoResp == Resp(0, "", "", <<>>)

\* http.Error(w, msg, code): a plain-text body holding the message.
HttpError(msg, code) == Resp(code, "text/plain; charset=utf-8", "", <<msg>>)

\* http.NotFound
NotFound == HttpError("404 page not found", 404)

(***************************************************************************)
(* State                                                                   *)
(***************************************************************************)
\* The goroutines that serve requests: net/http runs one per connection.
Procs == {1, 2}
SeqProcs == {1}

VARIABLES
    phase,      \* "boot", "serving" or "exited": where main is
    userFile,   \* users.json: [state: "missing"|"malformed"|"json", content]
    users,      \* the global users map
    dirs,       \* the directories of the filesystem (cleaned paths)
    files,      \* the regular files: path -> content
    h,          \* per goroutine: the request it serves and where it is
    writers,    \* history: file -> the authenticated users whose PUT wrote it
    committed,  \* history: file -> payload of the last PUT answered 204
    clean       \* history: files untouched since that PUT and written by it alone

vars == <<phase, userFile, users, dirs, files, h, writers, committed, clean>>

Idle ==
    [pc |-> "idle", req |-> NoReq, user |-> E, loc |-> <<E>>, size |-> 0,
     werr |-> FALSE, resp |-> NoResp, touched |-> {}, pre |-> {},
     overlapped |-> FALSE, wlast |-> FALSE]

Init ==
    /\ phase = "boot"
    /\ userFile \in {[state |-> "missing", content |-> <<>>],
                     [state |-> "malformed", content |-> <<>>],
                     [state |-> "json", content |-> ValidUsers]}
    /\ users = <<>>
    /\ dirs = {Cwd}
    /\ files = <<>>
    /\ h = [p \in Procs |-> Idle]
    /\ writers = <<>>
    /\ committed = <<>>
    /\ clean = {}

(***************************************************************************)
(* The filesystem                                                          *)
(***************************************************************************)
IsFile(loc) == loc \in DOMAIN files
IsDir(loc) == loc \in dirs

\* The path and the paths above it, but for the working directory.
Ancestors(loc) == {SubSeq(loc, 1, n) : n \in 1..Len(loc)} \ {Cwd}

\* A component of the path above loc is a regular file (ENOTDIR).
UnderFile(loc) == \E d \in Ancestors(loc) : d # loc /\ IsFile(d)

\* os.Stat(loc): "ok", "ENOENT" (os.IsNotExist) or "ENOTDIR".
Stat(loc) ==
    IF IsFile(loc) \/ IsDir(loc) THEN "ok"
    ELSE IF UnderFile(loc) THEN "ENOTDIR" ELSE "ENOENT"

\* os.MkdirAll(dir) can succeed: no component of dir is a regular file.
MkdirAllOk(dir) == ~ \E d \in Ancestors(dir) : IsFile(d)

\* The directories os.MkdirAll(dir) creates.
MkdirAllNew(dir) == Ancestors(dir) \ dirs

\* An open without O_TRUNC.
OpenNoTrunc(old) == old

\* os.OpenFile(name, O_WRONLY|O_CREATE|O_TRUNC): the content of the file once
\* it is open.
OpenTrunc(old) == <<>>

\* f.Write(data) on a descriptor at offset 0: the bytes replace those at the
\* start of the file, and bytes beyond them stay.
WriteAt(old, data) == data \o SubSeq(old, Len(data) + 1, Len(old))

\* The content of a file, as a set: empty for a file that does not exist.
Content(loc) == IF IsFile(loc) THEN {files[loc]} ELSE {}

(***************************************************************************)
(* main                                                                    *)
(***************************************************************************)
\* A Go error value: nil, or an error with the chain it wraps.  kind is the
\* type of the outermost error, errno the cause at the end of the chain.
NilError == [kind |-> "nil", errno |-> ""]

\* os.ReadFile's error for a file that does not exist: *fs.PathError, ENOENT.
ReadFileError == [kind |-> "PathError", errno |-> "ENOENT"]

\* json.Unmarshal's error for a document that does not parse.
UnmarshalError == [kind |-> "SyntaxError", errno |-> ""]

\* fmt.Errorf("...: %w", err): a *fmt.wrapError around err.
Errorf(err) == [kind |-> "wrapError", errno |-> err.errno]

\* os.IsNotExist(err): it looks below a *PathError, *LinkError or
\* *SyscallError only, and not below an error wrapped with %w.
IsNotExist(err) ==
    err.kind \in {"PathError", "LinkError", "SyscallError"} /\ err.errno = "ENOENT"

\* A load that takes a document that does not parse for an empty one.
loadUsersLenient(f) ==
    IF f.state = "missing" THEN Errorf(ReadFileError) ELSE NilError

\* loadUsers(userFile): the error it returns (the users map is set by Main).
loadUsers(f) ==
    IF f.state = "missing" THEN Errorf(ReadFileError)
    ELSE IF f.state = "malformed" THEN Errorf(UnmarshalError) ELSE NilError

\* main: load the users, or, on an error that os.IsNotExist accepts, write
\* the default users.json, and stop on any error; create the data directory;
\* serve.
Main ==
    /\ phase = "boot"
    /\ LET err == loadUsers(userFile)
       IN  IF err # NilError
           THEN IF IsNotExist(err)
                THEN /\ userFile' = [state |-> "json", content |-> defaultUsers]
                     /\ phase' = "exited"
                     /\ UNCHANGED <<users, dirs>>
                ELSE /\ phase' = "exited"
                     /\ UNCHANGED <<userFile, users, dirs>>
           ELSE /\ users' = userFile.content
                /\ \E mkdirOk \in BOOLEAN :
                       IF mkdirOk
                       THEN dirs' = dirs \cup Ancestors(dataDir) /\ phase' = "serving"
                       ELSE dirs' = dirs /\ phase' = "exited"
                /\ UNCHANGED userFile
    /\ UNCHANGED <<files, h, writers, committed, clean>>

(***************************************************************************)
(* The router, the middleware and the handlers up to their first filesystem*)
(* call.  Each yields what the request does next: "done" with a response,  *)
(* or the step to take ("stat" for a GET, "mkdir" for a PUT) on a file.    *)
(***************************************************************************)
Outcome(next, resp, user, loc) == [next |-> next, resp |-> resp, user |-> user, loc |-> loc]

Final(resp) == Outcome("done", resp, E, <<E>>)

\* The join without the Clean of the URL path before it.
FilePathNoClean(path) == Join(dataDir, path)

\* One file per calendar name, whoever the owner is.
FilePathFlat(path) == Join(dataDir, <<E, path[Len(path)]>>)

\* filepath.Join(dataDir, filepath.Clean(path))
FilePath(path) == Join(dataDir, Clean(path))

\* http.ServeFile(w, r, "index.html")
ServeIndex == Resp(200, "text/html; charset=utf-8", "", <<"index.html">>)

\* handleGetCalendar, to its os.Stat.
handleGetCalendar(r) ==
    IF ~HasSuffix(r.path, ICS) THEN Final(NotFound)
    ELSE Outcome("stat", NoResp, E, FilePath(r.path))

\* A handler without the test of the suffix.
handlePutCalendarNoSuffix(r, authUser) ==
    IF Len(Parts(r.path)) < 2
    THEN Final(HttpError("Invalid path format. Expected /{username}/{calendar}.ics", 400))
    ELSE IF authUser # Parts(r.path)[1]
         THEN Final(HttpError("Forbidden. You can only edit your own calendars.", 403))
         ELSE Outcome("mkdir", NoResp, authUser, FilePath(r.path))

\* handlePutCalendar, to its os.MkdirAll; authUser is the context's "user".
handlePutCalendar(r, authUser) ==
    IF ~HasSuffix(r.path, ICS)
    THEN Final(HttpError("Invalid path. Must end with .ics", 400))
    ELSE IF Len(Parts(r.path)) < 2
         THEN Final(HttpError("Invalid path format. Expected /{username}/{calendar}.ics", 400))
         ELSE IF authUser # Parts(r.path)[1]
              THEN Final(HttpError("Forbidden. You can only edit your own calendars.", 403))
              ELSE Outcome("mkdir", NoResp, authUser, FilePath(r.path))

\* r.BasicAuth()
BasicAuth(r) ==
    [username |-> r.auth.user, password |-> r.auth.pass, ok |-> r.auth.kind = "basic"]

\* The 401 of authMiddleware: the challenge header and http.Error.
Unauthorized ==
    [HttpError("Unauthorized", 401) EXCEPT !.challenge = "Basic realm=\"Restricted\""]

\* A middleware that tells an unknown user from a wrong password.
authMiddlewareLeaky(r) ==
    LET c == BasicAuth(r)
    IN  IF ~c.ok THEN Final(Unauthorized)
        ELSE IF c.username \notin DOMAIN users THEN Final(HttpError("Unknown user", 401))
             ELSE IF users[c.username] # c.password THEN Final(Unauthorized)
                  ELSE handlePutCalendar(r, c.username)

\* authMiddleware(handlePutCalendar)
authMiddleware(r) ==
    LET c == BasicAuth(r)
    IN  IF ~c.ok THEN Final(Unauthorized)
        ELSE IF c.username \notin DOMAIN users \/ users[c.username] # c.password
             THEN Final(Unauthorized)
             ELSE handlePutCalendar(r, c.username)

\* A router that asks for credentials on GET as well.
calendarHandlerAuthGet(r) ==
    LET c == BasicAuth(r)
    IN  IF r.method = "GET"
        THEN IF ~c.ok \/ c.username \notin DOMAIN users \/ users[c.username] # c.password
             THEN Final(Unauthorized)
             ELSE handleGetCalendar(r)
        ELSE IF r.method = "PUT" THEN authMiddleware(r)
             ELSE Final(HttpError("Method Not Allowed", 405))

calendarHandler(r) ==
    IF r.method = "GET" THEN handleGetCalendar(r)
    ELSE IF r.method = "PUT" THEN authMiddleware(r)
         ELSE Final(HttpError("Method Not Allowed", 405))

rootHandler(r) ==
    IF r.path = RootPath THEN Final(ServeIndex) ELSE calendarHandler(r)

(***************************************************************************)
(* Actions                                                                 *)
(***************************************************************************)
\* The request of goroutine p ends with response resp.
Finish(p, resp) ==
    [h EXCEPT ![p].pc = "done", ![p].resp = resp, ![p].size = 0, ![p].werr = FALSE]

\* Goroutine q holds file loc open for writing.
HasOpen(q, loc) == h[q].pc \in {"write", "close"} /\ h[q].loc = loc

\* A request arrives and runs to its response or to its first filesystem call.
Receive(p, r) ==
    /\ phase = "serving"
    /\ h[p].pc \in {"idle", "done"}
    /\ LET o == rootHandler(r)
       IN  h' = [h EXCEPT ![p] = [Idle EXCEPT !.pc = o.next, !.req = r, !.resp = o.resp,
                                               !.user = o.user, !.loc = o.loc]]
    /\ UNCHANGED <<phase, userFile, users, dirs, files, writers, committed, clean>>

\* A GET that makes sure of the owner's directory, as the PUT does.
GetStatMkdir(p) ==
    /\ h[p].pc = "stat"
    /\ h' = IF Stat(h[p].loc) = "ENOENT" THEN Finish(p, NotFound)
            ELSE [h EXCEPT ![p].pc = "serve"]
    /\ dirs' = IF MkdirAllOk(Dir(h[p].loc)) THEN dirs \cup Ancestors(Dir(h[p].loc)) ELSE dirs
    /\ UNCHANGED <<phase, userFile, users, files, writers, committed, clean>>

\* handleGetCalendar: os.Stat(filePath) and os.IsNotExist.
GetStat(p) ==
    /\ h[p].pc = "stat"
    /\ h' = IF Stat(h[p].loc) = "ENOENT" THEN Finish(p, NotFound)
            ELSE [h EXCEPT ![p].pc = "serve"]
    /\ UNCHANGED <<phase, userFile, users, dirs, files, writers, committed, clean>>

\* containsDotDot(r.URL.Path) of http.ServeFile
containsDotDot(path) == \E i \in 1..Len(path) : path[i] = DOTDOT

\* The response of http.ServeFile for a directory whose URL has no trailing "/".
DirRedirect == Resp(301, "text/calendar; charset=utf-8", "", <<>>)

\* http.ServeFile: refuse a URL with "..", open the file (an open that fails
\* on a missing file or below a regular file is a 404), redirect for a
\* directory, else take the file's size.  (History: pre is the document of
\* the file, when the file holds one whole.)
ServeFile(p) ==
    /\ h[p].pc = "serve"
    /\ h' = IF containsDotDot(h[p].req.path) THEN Finish(p, HttpError("invalid URL path", 400))
            ELSE IF Stat(h[p].loc) # "ok" THEN Finish(p, NotFound)
            ELSE IF IsDir(h[p].loc) THEN Finish(p, DirRedirect)
            ELSE [h EXCEPT ![p].pc = "copy", ![p].size = Len(files[h[p].loc]),
                           ![p].pre = IF h[p].loc \in clean THEN Content(h[p].loc) ELSE {}]
    /\ UNCHANGED <<phase, userFile, users, dirs, files, writers, committed, clean>>

\* A copy that stops one byte early.
ServedShort(content, size) == Take(content, IF size > 0 THEN size - 1 ELSE 0)

\* What io.CopyN sends of the file: its bytes now, up to the size taken.
Served(content, size) == Take(content, size)

\* http.ServeFile: the 200 and the bytes of the file.
ServeCopy(p) ==
    /\ h[p].pc = "copy"
    /\ h' = Finish(p, Resp(200, "text/calendar; charset=utf-8", "",
                           Served(files[h[p].loc], h[p].size)))
    /\ UNCHANGED <<phase, userFile, users, dirs, files, writers, committed, clean>>

InternalError == HttpError("Internal Server Error", 500)

\* Whether a call that does I/O succeeds: it may fail in the runs with faults
\* (a full disk, a permission, a client that hangs up).
Outcomes(faults) == IF faults THEN BOOLEAN ELSE {TRUE}

\* handlePutCalendar: os.MkdirAll(filepath.Dir(filePath)), which fails below a
\* regular file or on an I/O error.
MkdirAll(p, faults) ==
    /\ h[p].pc = "mkdir"
    /\ LET dir == Dir(h[p].loc)
       IN  \E ioOk \in Outcomes(faults) :
               IF ioOk /\ MkdirAllOk(dir)
               THEN /\ dirs' = dirs \cup Ancestors(dir)
                    /\ h' = [h EXCEPT ![p].pc = "open",
                                      ![p].touched = @ \cup MkdirAllNew(dir)]
               ELSE /\ dirs' = dirs
                    /\ h' = Finish(p, InternalError)
    /\ UNCHANGED <<phase, userFile, users, files, writers, committed, clean>>

\* handlePutCalendar: io.ReadAll(r.Body), then os.WriteFile's OpenFile, which
\* creates the file or truncates it; it fails on a directory or an I/O error.
WriteFileOpen(p, faults) ==
    /\ h[p].pc = "open"
    /\ LET loc == h[p].loc
       IN  \E bodyOk \in Outcomes(faults), openOk \in Outcomes(faults) :
               IF bodyOk /\ openOk /\ ~IsDir(loc)
               THEN /\ files' = (loc :> OpenTrunc(IF IsFile(loc) THEN files[loc] ELSE <<>>))
                                    @@ files
                    /\ writers' = (loc :> ((IF loc \in DOMAIN writers THEN writers[loc] ELSE {})
                                               \cup {h[p].user})) @@ writers
                    /\ clean' = clean \ {loc}
                    /\ h' = [q \in Procs |->
                               IF q = p
                               THEN [h[p] EXCEPT !.pc = "write", !.pre = Content(loc),
                                                 !.touched = @ \cup {loc},
                                                 !.overlapped = \E o \in Procs \ {p} : HasOpen(o, loc)]
                               ELSE IF HasOpen(q, loc) THEN [h[q] EXCEPT !.overlapped = TRUE]
                                    ELSE h[q]]
               ELSE /\ h' = Finish(p, InternalError)
                    /\ UNCHANGED <<files, writers, clean>>
    /\ UNCHANGED <<phase, userFile, users, dirs, committed>>

\* os.WriteFile: f.Write(data), whole or cut short by an error.
WriteFileWrite(p, faults) ==
    /\ h[p].pc = "write"
    /\ LET loc == h[p].loc
           data == h[p].req.body
       IN  \E k \in (IF faults THEN 0..Len(data) ELSE {Len(data)}) :
               /\ files' = [files EXCEPT ![loc] = WriteAt(@, Take(data, k))]
               /\ h' = [q \in Procs |->
                          IF q = p
                          THEN [h[p] EXCEPT !.pc = "close", !.werr = (k < Len(data)),
                                            !.wlast = (k = Len(data))]
                          ELSE IF k = Len(data) /\ h[q].loc = loc
                               THEN [h[q] EXCEPT !.wlast = FALSE]
                               ELSE h[q]]
    /\ UNCHANGED <<phase, userFile, users, dirs, writers, committed, clean>>

\* A handler that drops the error of os.WriteFile.
WriteFileCloseNoCheck(p, faults) ==
    /\ h[p].pc = "close"
    /\ h' = Finish(p, Resp(204, "", "", <<>>))
    /\ committed' = (h[p].loc :> h[p].req.body) @@ committed
    /\ clean' = IF h[p].overlapped THEN clean \ {h[p].loc} ELSE clean \cup {h[p].loc}
    /\ UNCHANGED <<phase, userFile, users, dirs, files, writers>>

\* os.WriteFile: f.Close(); then the 500 of a failed write, or the 204.
WriteFileClose(p, faults) ==
    /\ h[p].pc = "close"
    /\ LET loc == h[p].loc
       IN  \E closeOk \in Outcomes(faults) :
               IF closeOk /\ ~h[p].werr
               THEN /\ h' = Finish(p, Resp(204, "", "", <<>>))
                    /\ committed' = (loc :> h[p].req.body) @@ committed
                    /\ clean' = IF h[p].overlapped THEN clean \ {loc} ELSE clean \cup {loc}
               ELSE /\ h' = Finish(p, InternalError)
                    /\ UNCHANGED <<committed, clean>>
    /\ UNCHANGED <<phase, userFile, users, dirs, files, writers>>

Step(p, faults) ==
    \/ GetStat(p)
    \/ ServeFile(p)
    \/ ServeCopy(p)
    \/ MkdirAll(p, faults)
    \/ WriteFileOpen(p, faults)
    \/ WriteFileWrite(p, faults)
    \/ WriteFileClose(p, faults)

\* One request at a time, every path and credential, I/O that succeeds.
Next ==
    \/ Main
    \/ \E p \in SeqProcs : (\E r \in Requests : Receive(p, r)) \/ Step(p, FALSE)

Spec == Init /\ [][Next]_vars

\* One request at a time on the calendars of their owners, I/O that may fail.
FaultNext ==
    \/ Main
    \/ \E p \in SeqProcs : (\E r \in OwnRequests : Receive(p, r)) \/ Step(p, TRUE)

FaultSpec == Init /\ [][FaultNext]_vars

\* Requests served concurrently, I/O that succeeds.
ConcNext ==
    \/ Main
    \/ \E p \in Procs : (\E r \in ConcRequests : Receive(p, r)) \/ Step(p, FALSE)

ConcSpec == Init /\ [][ConcNext]_vars

(***************************************************************************)
(* Properties                                                              *)
(***************************************************************************)
InFlight(p) == h[p].pc \notin {"idle", "done"}

Done(p) == h[p].pc = "done"

\* The credentials of request r fail in authMiddleware.
AuthFails(r) ==
    \/ ~BasicAuth(r).ok
    \/ BasicAuth(r).username \notin DOMAIN users
    \/ users[BasicAuth(r).username] # BasicAuth(r).password

\* The owner of a URL path: its first segment after normalization.
Owner(path) == Trim(Clean(path))[1]

\* C1: every file below calendars/O/ was created or changed only by PUT
\* requests whose verified user is O.
C1_OnlyOwnerWrites ==
    \A f \in DOMAIN files :
        StrictlyUnder(f, dataDir) /\ Len(f) >= 3 => writers[f] \subseteq {f[2]}

\* C2: a PUT with correct credentials of U1 to a .ics path whose owner is
\* another user U2 of the credential store is answered 403 and changes
\* nothing in the storage tree.
C2_CrossOwnerForbidden ==
    \A p \in Procs :
        /\ Done(p)
        /\ h[p].req.method = "PUT"
        /\ h[p].req.path # RootPath
        /\ HasSuffix(h[p].req.path, ICS)
        /\ ~AuthFails(h[p].req)
        /\ Owner(h[p].req.path) \in DOMAIN users
        /\ Owner(h[p].req.path) # h[p].req.auth.user
        => /\ h[p].resp.status = 403
           /\ h[p].touched = {}

\* C3: the location a GET reads and a PUT creates directories for and writes
\* is strictly below the storage root, and so is every file and directory the
\* server has created.
C3_UnderRoot ==
    /\ \A p \in Procs :
           h[p].loc # <<E>>
           => /\ StrictlyUnder(h[p].loc, dataDir)
              /\ \A t \in h[p].touched : StrictlyUnder(t, dataDir)
    /\ \A f \in DOMAIN files : StrictlyUnder(f, dataDir)
    /\ \A d \in dirs : d = Cwd \/ IsPrefix(dataDir, d)

\* A PUT to a path with ".." segments was answered 204 and its file is below
\* the storage root.
C3_Witness ==
    /\ Done(1)
    /\ h[1].req.method = "PUT"
    /\ h[1].req.path = PathEsc
    /\ h[1].resp.status = 204
    /\ h[1].loc = dataDir \o <<SegX>>
    /\ h[1].loc \in DOMAIN files

\* C4: a GET of a calendar whose last write was a PUT answered 204 is answered
\* 200 with exactly the payload of that PUT.
C4_WriteThenRead ==
    \A p \in Procs :
        Done(p) /\ h[p].req.method = "GET" /\ h[p].loc \in clean
        => /\ h[p].resp.status = 200
           /\ h[p].resp.ctype = "text/calendar; charset=utf-8"
           /\ h[p].resp.body = committed[h[p].loc]

\* A GET has returned the two bytes that the PUT before it stored.
C4_Witness ==
    /\ Done(1)
    /\ h[1].req.method = "GET"
    /\ h[1].loc \in clean
    /\ committed[h[1].loc] = Doc(2)
    /\ h[1].resp.body = Doc(2)

\* C5: a PUT whose credentials are missing, malformed, wrong, or of an unknown
\* user gets the response that every other failing credential gets on the
\* same path; on a calendar path that is the 401 with the challenge.
C5_SameFailure ==
    \A p \in Procs :
        Done(p) /\ h[p].req.method = "PUT" /\ AuthFails(h[p].req)
        => /\ \A au \in FailAuths :
                  rootHandler([h[p].req EXCEPT !.auth = au]).resp = h[p].resp
           /\ h[p].req.path # RootPath
                  => /\ h[p].resp.status = 401
                     /\ h[p].resp.challenge = "Basic realm=\"Restricted\""
                     /\ h[p].resp.body = <<"Unauthorized">>

\* A PUT with the name of an unknown user was answered 401.
C5_Witness ==
    /\ Done(1)
    /\ h[1].req.method = "PUT"
    /\ h[1].req.path = PathAX
    /\ h[1].req.auth = Basic(SegZ, "pz")
    /\ h[1].resp.status = 401

\* C6: a PUT answered 204 with no concurrent writer leaves exactly its payload
\* in the file, whatever the file held, and the file holds it until the next
\* write.
C6_FullReplace ==
    /\ \A p \in Procs :
           Done(p) /\ h[p].req.method = "PUT" /\ h[p].resp.status = 204
               /\ ~h[p].overlapped
           => files[h[p].loc] = h[p].req.body
    /\ \A f \in clean : files[f] = committed[f]

\* A PUT of the empty document over a file of two bytes was answered 204.
C6_Witness ==
    /\ Done(1)
    /\ h[1].req.method = "PUT"
    /\ h[1].resp.status = 204
    /\ h[1].pre = {Doc(2)}
    /\ h[1].req.body = <<>>
    /\ files[h[1].loc] = <<>>

\* C7: a GET of a .ics path whose file no PUT answered 204 has ever written is
\* answered 404.
C7_NeverWritten404 ==
    \A p \in Procs :
        /\ Done(p)
        /\ h[p].req.method = "GET"
        /\ h[p].req.path # RootPath
        /\ HasSuffix(h[p].req.path, ICS)
        /\ FilePath(h[p].req.path) \notin DOMAIN committed
        => h[p].resp.status = 404

\* C8: when two PUTs to one file that ran concurrently were both answered
\* 204, the file holds the payload of the one whose write completed last.
C8_LastWriteWins ==
    \A p \in Procs, q \in Procs :
        /\ p # q
        /\ Done(p) /\ Done(q)
        /\ h[p].req.method = "PUT" /\ h[q].req.method = "PUT"
        /\ h[p].resp.status = 204 /\ h[q].resp.status = 204
        /\ h[p].loc = h[q].loc
        /\ h[p].overlapped /\ h[q].overlapped
        /\ h[p].wlast
        => files[h[p].loc] = h[p].req.body

\* The whole documents of file loc: the payload of the last PUT answered 204
\* and those of the PUTs that are writing it.
CompleteDocs(loc) ==
    (IF loc \in DOMAIN committed THEN {committed[loc]} ELSE {})
        \cup {h[q].req.body : q \in {r \in Procs : HasOpen(r, loc)}}

\* C9: the body returned by a GET that opened a calendar holding a whole
\* document is a whole document, the previous one or the new one, also in the
\* middle of a PUT that overwrites the calendar.
C9_NeverPartial ==
    [][\A p \in Procs :
           /\ h[p].pc = "copy"
           /\ h'[p].pc = "done"
           /\ h[p].pre # {}
           => h'[p].resp.body \in h[p].pre \cup CompleteDocs(h[p].loc)]_vars

\* The content a GET of URL path would be given.
Stored(path) == Content(FilePath(path))

AnonGet(path) ==
    LET o == rootHandler(Req("GET", path, NoAuth, <<>>))
    IN  IF o.next = "done" THEN o.resp
        ELSE IF Stat(o.loc) = "ENOENT" THEN NotFound
        ELSE IF containsDotDot(path) THEN HttpError("invalid URL path", 400)
        ELSE IF Stat(o.loc) # "ok" THEN NotFound
        ELSE IF IsDir(o.loc) THEN DirRedirect
        ELSE Resp(200, "text/calendar; charset=utf-8", "", files[o.loc])

\* C11: the response of a GET, status and body, is the one a GET of the same
\* path without credentials gets in the same state of the storage tree,
\* whether it carries no credentials, those of a user or invalid ones; it is
\* never a 401 or a 403.
C11_ReadsPublic ==
    \A p \in Procs :
        Done(p) /\ h[p].req.method = "GET"
        => /\ h[p].resp = AnonGet(h[p].req.path)
           /\ h[p].resp.status \notin {401, 403}

\* A GET with a wrong password has read the calendar that a PUT stored.
C11_Witness ==
    /\ Done(1)
    /\ h[1].req.method = "GET"
    /\ h[1].req.path = PathAX
    /\ h[1].req.auth = Basic(SegA, "bad")
    /\ h[1].resp.status = 200
    /\ h[1].resp.body = Doc(1)

\* C12: a request whose method is neither GET nor PUT is answered 405,
\* whatever its path, and has changed nothing in the storage tree.
C12_OtherMethods405 ==
    \A p \in Procs :
        Done(p) /\ h[p].req.method \notin {"GET", "PUT"}
        => h[p].resp.status = 405 /\ h[p].touched = {}

\* C13: on a path that is not the root and does not end with ".ics", a GET is
\* answered 404 and a PUT 400, whatever the credentials of the PUT.
C13_NonIcsAnyCredentials ==
    \A p \in Procs :
        Done(p) /\ h[p].req.path # RootPath /\ ~HasSuffix(h[p].req.path, ICS)
        => /\ h[p].req.method = "GET" => h[p].resp.status = 404
           /\ h[p].req.method = "PUT" => h[p].resp.status = 400

\* C13 as amended: on such a path a GET is answered 404, a PUT with valid
\* credentials 400, and a PUT with missing or invalid credentials 401.
C13_NonIcs ==
    \A p \in Procs :
        Done(p) /\ h[p].req.path # RootPath /\ ~HasSuffix(h[p].req.path, ICS)
        => /\ h[p].req.method = "GET" => h[p].resp.status = 404
           /\ h[p].req.method = "PUT" /\ ~AuthFails(h[p].req) => h[p].resp.status = 400
           /\ h[p].req.method = "PUT" /\ AuthFails(h[p].req) => h[p].resp.status = 401

\* A PUT of a user to a path of that user without the suffix was answered 400.
C13_Witness ==
    /\ Done(1)
    /\ h[1].req.method = "PUT"
    /\ h[1].req.path = PathNon
    /\ h[1].req.auth = Basic(SegA, "pa")
    /\ h[1].resp.status = 400

\* C14: once main is past its startup with a users.json that did not exist,
\* the file exists and holds the two default entries, and the process has
\* stopped.
C14_Bootstrap ==
    phase # "boot"
    => /\ userFile.state # "missing"
       /\ userFile.content = defaultUsers => phase = "exited"

C16_AuthFirst ==
    \A p \in Procs :
        h[p].req.method = "PUT"
        => /\ Done(p) /\ AuthFails(h[p].req)
                  => h[p].resp.status = 401 /\ h[p].touched = {} /\ h[p].loc = <<E>>
           /\ InFlight(p) \/ (Done(p) /\ h[p].resp.status \in {400, 403, 204, 500})
                  => ~AuthFails(h[p].req)

\* The request of p is a PUT that authMiddleware has let through.
Authenticated(p) ==
    h[p].req.method = "PUT" /\ h[p].req.path # RootPath /\ ~AuthFails(h[p].req)

\* C17: an authenticated PUT ends with 204, 400, 403 or 500; with 204 only
\* from the close of a write without error, when the directory exists and the
\* file holds the whole payload; with 500 when os.MkdirAll, io.ReadAll or
\* os.WriteFile fails.  The server goes on serving, and the request that has
\* ended does nothing more.
C17_PutOutcome ==
    [][\A p \in SeqProcs :
           /\ h'[p] # h[p] /\ h'[p].pc = "done" /\ Authenticated(p)'
                  => /\ h'[p].resp.status \in {204, 400, 403, 500}
                     /\ h'[p].resp.status = 204
                            => /\ h[p].pc = "close" /\ ~h[p].werr
                               /\ IsDir(Dir(h[p].loc))
                               /\ IsFile(h[p].loc)
                               /\ files[h[p].loc] = h[p].req.body
                     /\ h[p].pc \in {"mkdir", "open"} => h'[p].resp.status = 500
                     /\ h[p].pc = "close" /\ (h[p].werr \/ files[h[p].loc] # h[p].req.body)
                            => h'[p].resp.status = 500
                     /\ phase' = "serving"
           /\ h[p].pc = "done" => files' = files /\ dirs' = dirs]_vars

\* A PUT whose write stopped short was answered 500.
C17_Witness ==
    /\ Done(1)
    /\ h[1].req.method = "PUT"
    /\ h[1].resp.status = 500
    /\ h[1].req.body = Doc(2)
    /\ IsFile(h[1].loc)
    /\ files[h[1].loc] = <<"A">>
    /\ phase = "serving"

\* C18: a step of a GET, of a request with another method, or of a PUT that
\* is answered 400, 401 or 403 changes no file, no directory and no user.
C18_SideEffectsConfined ==
    [][\A p \in Procs :
           /\ h'[p] # h[p]
           /\ \/ h'[p].req.method # "PUT"
              \/ h'[p].pc = "done" /\ h'[p].resp.status \in {400, 401, 403}
           => /\ files' = files
              /\ dirs' = dirs
              /\ users' = users
              /\ userFile' = userFile]_vars

\* A PUT to the calendar of another user was answered 403 with calendars in
\* the storage tree.
C18_Witness ==
    /\ Done(1)
    /\ h[1].req.method = "PUT"
    /\ h[1].resp.status = 403
    /\ Stored(PathAX) = {Doc(1)}
    /\ Stored(PathBX) = {Doc(1)}

\* C19: a .ics path of fewer than two segments once normalized and trimmed is
\* invalid: a PUT to it with verified credentials is answered 400 and writes
\* nothing, and a GET of it is answered 404.
C19_ShortPathInvalid ==
    \A p \in Procs :
        /\ Done(p)
        /\ h[p].req.path # RootPath
        /\ HasSuffix(h[p].req.path, ICS)
        /\ Len(Trim(Clean(h[p].req.path))) < 2
        => /\ h[p].req.method = "PUT" /\ ~AuthFails(h[p].req)
                  => h[p].resp.status = 400 /\ h[p].touched = {}
           /\ h[p].req.method = "GET" => h[p].resp.status = 404

\* C20: a PUT answered 500 has created no directory and has created or
\* truncated no file.
C20_FailedPutNoChange ==
    \A p \in Procs :
        Done(p) /\ h[p].req.method = "PUT" /\ h[p].resp.status = 500
        => h[p].touched = {}

=============================================================================
